---------------------------- MODULE Spec2Model ----------------------------
(***************************************************************************)
(* Gradient compression and aggregation for simulated federated learning   *)
(* (KAI-YUE/GCFL): the optimizer wrappers of grace_fl/gc_optimizer.py, the *)
(* LocalUpdater that feeds them and the training loop of main.py.          *)
(*                                                                         *)
(* Every parameter is a one-element tensor: all tensor operations of the   *)
(* wrappers are element-wise, so a tensor is modelled by its one element   *)
(* and "all-zero" reads "= 0".  Gradients are integers in units in which   *)
(* const.EPSILON is 1.                                                     *)
(***************************************************************************)
EXTENDS Integers, Sequences, FiniteSets, TLC

(***************************************************************************)
(* Bounds of the model.                                                    *)
(***************************************************************************)
MaxSteps == 2        \* step() calls explored per run; rounds of a train run
MaxGathers == 2      \* gather() calls explored per run; per round in train
MaxTurn == 1         \* largest turn a caller of the API passes to gather
MaxModeCode == 4     \* mode codes 0..MaxModeCode are handed to the factory

(***************************************************************************)
(* The model's parameters and the parameter groups of the base optimizer.  *)
(* A slot is one (group, index-in-group, parameter) of the double loop     *)
(* "for group in self.param_groups: for i, param in enumerate(...)";       *)
(* i is the index inside the group, counted from 1 here.                   *)
(***************************************************************************)
Params == {1, 2}

OneGroup(m) == << [params |-> <<1, 2>>, lr |-> 1, momentum |-> m] >>

TwoGroups == << [params |-> <<1>>, lr |-> 1, momentum |-> 2],
                [params |-> <<2>>, lr |-> 2, momentum |-> 0] >>

Layouts == {OneGroup(0), OneGroup(2), TwoGroups}

RECURSIVE GroupSlots(_, _)
GroupSlots(group, i) ==
    IF i > Len(group.params) THEN << >>
    ELSE << [param |-> group.params[i], i |-> i,
             lr |-> group.lr, momentum |-> group.momentum] >>
         \o GroupSlots(group, i + 1)

RECURSIVE Slots(_)
Slots(groups) ==
    IF groups = << >> THEN << >>
    ELSE GroupSlots(Head(groups), 1) \o Slots(Tail(groups))

RECURSIVE NumParameters(_)
NumParameters(groups) ==
    IF groups = << >> THEN 0
    ELSE Len(Head(groups).params) + NumParameters(Tail(groups))

(***************************************************************************)
(* The compressor (grace).  Its concrete classes are not among the source  *)
(* files; it is modelled from the specification: a sign compressor that    *)
(* encodes one bit per element (ties towards +1) and decodes it to +1/-1,  *)
(* the residual variant that encodes the sign of tensor - reference, and   *)
(* majority-sign extraction for the summed tensor.                         *)
(***************************************************************************)
EPSILON == 1

GradValues == {0 - 2, 0 - 1, 0, 2}

Compress(tensor) == IF tensor >= 0 THEN 1 ELSE 0

Decompress(encoded) == 2 * encoded - 1

CompressWithReference(tensor, refer) == IF tensor - refer >= 0 THEN 1 ELSE 0

DecompressWithReference(encoded, refer) == 2 * encoded - 1

TransAggregation(tensor) == IF tensor >= 0 THEN 1 ELSE 0 - 1


\* compress(tensor, sign=...): the call of the turn wrapper before its first
\* step; the specification gives the sign no effect on the encoding.
CompressSigned(tensor, sign) == Compress(tensor)

\* trans_aggregation(tensor, sign): the two-argument call of the turn wrapper.
TransAggregationSigned(tensor, sign) == TransAggregation(tensor)

(***************************************************************************)
(* State.  optimizer is the wrapper object (None before the factory has    *)
(* run), grace the compressor it holds, grad and data the .grad and .data  *)
(* of the model's parameters (grad[p].set is FALSE while p.grad is None),  *)
(* requires_grad their requires_grad flags.                                *)
(* logged holds the messages given to logging.error.  factoryArgs are the  *)
(* keyword arguments the factory was called with; stepCount counts the     *)
(* step() calls and totalGathers the gather() calls; round holds the       *)
(* number of gather() calls since the last step, the values current_sign   *)
(* had in them and the sign buffers as the last step left them; and        *)
(* rawSum is what the properties about the first round compare with.       *)
(***************************************************************************)
VARIABLES optimizer, grace, requires_grad, grad, data, logged, factoryArgs, stepCount,
          round, totalGathers, rawSum, updater, train

vars == << optimizer, grace, requires_grad, grad, data, logged, factoryArgs, stepCount,
           round, totalGathers, rawSum, updater, train >>

Zeros(n) == [i \in 1..n |-> 0]

NoOptimizer ==
    [cls |-> "None", param_groups |-> << >>,
     gatheredGradients |-> << >>, buffer |-> << >>,
     plus_sign_buffer |-> << >>, minus_sign_buffer |-> << >>,
     buffer_empty |-> TRUE, self_current_sign |-> 1,
     turn |-> [set |-> FALSE, val |-> 0],
     momentum_buffer |-> [p \in Params |-> [set |-> FALSE, val |-> 0]]]

\* The three __init__ methods: one zero buffer per parameter of every group,
\* appended to one flat list.  A field a class does not have stays at its
\* default and is never read by that class.
NewOptimizer(cls, groups) ==
    [NoOptimizer EXCEPT
        !.cls = cls,
        !.param_groups = groups,
        !.gatheredGradients = Zeros(NumParameters(groups)),
        !.buffer = Zeros(NumParameters(groups)),
        !.plus_sign_buffer = Zeros(NumParameters(groups)),
        !.minus_sign_buffer = Zeros(NumParameters(groups))]

\* grace_optimizer: kwargs is [has_mode, mode]; "mode" absent means 3.  For a
\* mode other than 0, 1 and 3 no branch binds cls and "return cls(...)" raises
\* UnboundLocalError: no wrapper object exists.
\* grace_optimizer with a final "else" that builds the plain wrapper.
grace_optimizer_FallsBack(groups, kwargs) ==
    LET mode == IF kwargs.has_mode THEN kwargs.mode ELSE 3
    IN  IF mode = 0 THEN NewOptimizer("_predTurnOptimizer", groups)
        ELSE IF mode = 1 THEN NewOptimizer("_predOptimizer", groups)
        ELSE NewOptimizer("_graceOptimizer", groups)

grace_optimizer(groups, kwargs) ==
    LET mode == IF kwargs.has_mode THEN kwargs.mode ELSE 3
    IN  IF mode = 0 THEN NewOptimizer("_predTurnOptimizer", groups)
        ELSE IF mode = 1 THEN NewOptimizer("_predOptimizer", groups)
        ELSE IF mode = 3 THEN NewOptimizer("_graceOptimizer", groups)
        ELSE [NoOptimizer EXCEPT !.cls = "UnboundLocalError"]

\* The property current_sign of the turn wrapper: the compressor's field.
current_sign(s) == s.grace.current_sign

(***************************************************************************)
(* gather.  s is the state the call works on:                              *)
(* [opt, grace, grad, data, logged, requires_grad].                        *)
(***************************************************************************)
GraceGatherSlot(s, slot) ==
    IF ~s.grad[slot.param].set THEN s
    ELSE LET g == s.grad[slot.param].val
         IN [s EXCEPT
               !.opt.gatheredGradients[slot.i] = @ + Decompress(Compress(g)),
               !.grace.calls = @ \cup {"compress", "decompress"},
               !.grad[slot.param].val = 0]

\* PredGatherSlot that also registers what it decoded as the reference.
PredGatherSlot_UpdatesReference(s, slot) ==
    IF ~s.grad[slot.param].set THEN s
    ELSE LET g == s.grad[slot.param].val
             ref == s.opt.buffer[slot.i]
             decoded == IF s.opt.buffer_empty THEN Decompress(Compress(g))
                        ELSE DecompressWithReference(
                                 CompressWithReference(g, ref), ref)
         IN [s EXCEPT
               !.opt.gatheredGradients[slot.i] = @ + decoded,
               !.opt.buffer[slot.i] = decoded,
               !.grad[slot.param].val = 0]

PredGatherSlot(s, slot) ==
    IF ~s.grad[slot.param].set THEN s
    ELSE LET g == s.grad[slot.param].val
             ref == s.opt.buffer[slot.i]
         IN IF s.opt.buffer_empty
            THEN [s EXCEPT
                    !.opt.gatheredGradients[slot.i] =
                        @ + Decompress(Compress(g)),
                    !.grace.calls = @ \cup {"compress", "decompress"},
                    !.grad[slot.param].val = 0]
            ELSE [s EXCEPT
                    !.opt.gatheredGradients[slot.i] =
                        @ + DecompressWithReference(
                                CompressWithReference(g, ref), ref),
                    !.grace.calls = @ \cup {"compress_with_reference",
                                            "decompress_with_reference"},
                    !.grad[slot.param].val = 0]

\* PredTurnGatherSlot counting the drift in the sign buffer it also reads as
\* the reference.
PredTurnGatherSlot_DriftInReference(s, slot) ==
    IF ~s.grad[slot.param].set THEN s
    ELSE LET g == s.grad[slot.param].val
             plus == s.opt.plus_sign_buffer[slot.i]
             minus == s.opt.minus_sign_buffer[slot.i]
             decoded ==
                 IF s.opt.buffer_empty
                 THEN Decompress(CompressSigned(g, s.opt.self_current_sign))
                 ELSE IF current_sign(s) = 1
                 THEN DecompressWithReference(
                          CompressWithReference(g, plus), plus)
                 ELSE DecompressWithReference(
                          CompressWithReference(g, minus), minus)
         IN [s EXCEPT
               !.opt.gatheredGradients[slot.i] = @ + decoded,
               !.opt.plus_sign_buffer[slot.i] =
                   IF current_sign(s) = 1
                   THEN @ + (IF g < 0 - EPSILON THEN 1 ELSE 0) ELSE @,
               !.opt.minus_sign_buffer[slot.i] =
                   IF current_sign(s) = 1
                   THEN @ ELSE @ + (IF g > EPSILON THEN 1 ELSE 0),
               !.grad[slot.param].val = 0]

PredTurnGatherSlot(s, slot) ==
    IF ~s.grad[slot.param].set THEN s
    ELSE LET g == s.grad[slot.param].val
             plus == s.opt.plus_sign_buffer[slot.i]
             minus == s.opt.minus_sign_buffer[slot.i]
             decoded ==
                 IF s.opt.buffer_empty
                 THEN Decompress(CompressSigned(g, s.opt.self_current_sign))
                 ELSE IF current_sign(s) = 1
                 THEN DecompressWithReference(
                          CompressWithReference(g, plus), plus)
                 ELSE DecompressWithReference(
                          CompressWithReference(g, minus), minus)
             called ==
                 IF s.opt.buffer_empty THEN {"compress", "decompress"}
                 ELSE {"compress_with_reference", "decompress_with_reference"}
         IN [s EXCEPT
               !.opt.gatheredGradients[slot.i] = @ + decoded,
               !.opt.minus_sign_buffer[slot.i] =
                   IF current_sign(s) = 1
                   THEN @ + (IF g < 0 - EPSILON THEN 1 ELSE 0) ELSE @,
               !.opt.plus_sign_buffer[slot.i] =
                   IF current_sign(s) = 1
                   THEN @ ELSE @ + (IF g > EPSILON THEN 1 ELSE 0),
               !.grace.calls = @ \cup called,
               !.grad[slot.param].val = 0]

\* The try block at the head of _predTurnOptimizer.gather.
PredTurnReadTurn(s, kwargs) ==
    IF kwargs.has_turn
    THEN [s EXCEPT
            !.opt.turn = [set |-> TRUE, val |-> kwargs.turn],
            !.opt.self_current_sign =
                IF kwargs.turn % 2 = 0 THEN 1 ELSE 0 - 1]
    ELSE [s EXCEPT !.logged = @ \cup {"Turn trick cannot be applied"}]

GatherSlot(s, slot) ==
    IF s.opt.cls = "_graceOptimizer" THEN GraceGatherSlot(s, slot)
    ELSE IF s.opt.cls = "_predOptimizer" THEN PredGatherSlot(s, slot)
    ELSE PredTurnGatherSlot(s, slot)

RECURSIVE GatherSlots(_, _)
GatherSlots(s, slots) ==
    IF slots = << >> THEN s
    ELSE GatherSlots(GatherSlot(s, Head(slots)), Tail(slots))

\* gather that gives up after logging when the turn wrapper gets no turn.
gather_StopsWithoutTurn(s, kwargs) ==
    LET s0 == [s EXCEPT !.grace.calls = {}]
    IN  IF s.opt.cls = "_predTurnOptimizer" /\ ~kwargs.has_turn
        THEN PredTurnReadTurn(s0, kwargs)
        ELSE GatherSlots(IF s.opt.cls = "_predTurnOptimizer"
                         THEN PredTurnReadTurn(s0, kwargs) ELSE s0,
                         Slots(s.opt.param_groups))

gather(s, kwargs) ==
    LET s0 == [s EXCEPT !.grace.calls = {}]
        s1 == IF s.opt.cls = "_predTurnOptimizer"
              THEN PredTurnReadTurn(s0, kwargs) ELSE s0
    IN  GatherSlots(s1, Slots(s.opt.param_groups))

(***************************************************************************)
(* step.                                                                   *)
(***************************************************************************)
\* GraceStepSlot without "self._gatheredGradients[i].zero_()".
GraceStepSlot_KeepsBuffer(s, slot) ==
    LET d_param == TransAggregation(s.opt.gatheredGradients[slot.i])
    IN [s EXCEPT
          !.data[slot.param] = @ - slot.lr * d_param,
          !.grace.calls = @ \cup {"trans_aggregation"}]

GraceStepSlot(s, slot) ==
    LET d_param == TransAggregation(s.opt.gatheredGradients[slot.i])
    IN [s EXCEPT
          !.data[slot.param] = @ - slot.lr * d_param,
          !.opt.gatheredGradients[slot.i] = 0,
          !.grace.calls = @ \cup {"trans_aggregation"}]

PredStepSlot(s, slot) ==
    LET aggregated == TransAggregation(s.opt.gatheredGradients[slot.i])
        old == s.opt.momentum_buffer[slot.param]
        buf == IF old.set THEN slot.momentum * old.val + aggregated
               ELSE aggregated
        ref == s.opt.buffer[slot.i]
        \* with momentum the broadcast tensor is compressed once more
        d_param ==
            IF slot.momentum = 0 THEN aggregated
            ELSE IF s.opt.buffer_empty
            THEN Decompress(Compress(aggregated))
            ELSE DecompressWithReference(
                     CompressWithReference(aggregated, ref), ref)
        called ==
            IF slot.momentum = 0 THEN {"trans_aggregation"}
            ELSE IF s.opt.buffer_empty
            THEN {"trans_aggregation", "compress", "decompress"}
            ELSE {"trans_aggregation", "compress_with_reference",
                  "decompress_with_reference"}
    IN [s EXCEPT
          !.opt.momentum_buffer[slot.param] =
              IF slot.momentum = 0 THEN @ ELSE [set |-> TRUE, val |-> buf],
          !.data[slot.param] = @ - slot.lr * d_param,
          !.opt.gatheredGradients[slot.i] = 0,
          !.opt.buffer[slot.i] = d_param,
          !.grace.calls = @ \cup called]

PredTurnStepSlot(s, slot) ==
    LET aggregated == TransAggregation(s.opt.gatheredGradients[slot.i])
        sign == current_sign(s)
        d_param == sign * aggregated
    IN [s EXCEPT
          !.opt.plus_sign_buffer[slot.i] =
              IF sign = 1 THEN 0
              ELSE TransAggregationSigned(@, 0 - sign),
          !.opt.minus_sign_buffer[slot.i] =
              IF sign = 1 THEN 0 - TransAggregationSigned(@, 0 - sign)
              ELSE 0,
          !.data[slot.param] = @ - slot.lr * d_param,
          !.opt.gatheredGradients[slot.i] = 0,
          !.grace.calls = @ \cup {"trans_aggregation"}]

StepSlot(s, slot) ==
    IF s.opt.cls = "_graceOptimizer" THEN GraceStepSlot(s, slot)
    ELSE IF s.opt.cls = "_predOptimizer" THEN PredStepSlot(s, slot)
    ELSE PredTurnStepSlot(s, slot)

RECURSIVE StepSlots(_, _)
StepSlots(s, slots) ==
    IF slots = << >> THEN s
    ELSE StepSlots(StepSlot(s, Head(slots)), Tail(slots))

\* The assignment "self._buffer_empty = False" that ends the step of the two
\* predictive wrappers; the plain wrapper has no such field.
MarkReference(s) ==
    IF s.opt.cls = "_graceOptimizer" THEN s
    ELSE [s EXCEPT !.opt.buffer_empty = FALSE]

step(s) ==
    MarkReference(StepSlots([s EXCEPT !.grace.calls = {}],
                            Slots(s.opt.param_groups)))

\* set_current_sign of the turn wrapper.
set_current_sign(s, sign) == [s EXCEPT !.grace.current_sign = sign]

\* loss.backward(): autograd adds the new gradient g[p] to p.grad, creating
\* it when it is None; a parameter that does not require a gradient keeps
\* grad None.
backward(s, g) ==
    [s EXCEPT !.grad = [p \in Params |->
        IF s.requires_grad[p]
        THEN [set |-> TRUE, val |-> s.grad[p].val + g[p]]
        ELSE s.grad[p]]]

(***************************************************************************)
(* The wrapper under any caller: the factory, then backward passes,        *)
(* gather, step, set_current_sign and the compressor's reset in any order. *)
(***************************************************************************)
Wrappers == {"_graceOptimizer", "_predOptimizer", "_predTurnOptimizer"}

NoArg == [has |-> FALSE, val |-> 0]

Arg(v) == [has |-> TRUE, val |-> v]

\* The gradients one backward pass computes: a value per parameter (that of
\* parameter 2 lies beyond the threshold).
GradChoices ==
    {[p \in Params |-> IF p = 1 THEN v ELSE u] :
        v \in GradValues, u \in {0 - 2, 2}}

State == [opt |-> optimizer, grace |-> grace, grad |-> grad, data |-> data,
          logged |-> logged, requires_grad |-> requires_grad]

Becomes(s) ==
    /\ optimizer' = s.opt
    /\ grace' = s.grace
    /\ grad' = s.grad
    /\ data' = s.data
    /\ logged' = s.logged
    /\ UNCHANGED requires_grad

NoUpdater ==
    [state |-> "None", keys |-> {}, fields |-> {}, message |-> {},
     batchSize |-> 0, batches |-> 0, calling |-> FALSE, kwargs |-> NoArg,
     batches_left |-> 0, gathers_of_call |-> 0]

NoTrain == [pc |-> "idle"]

\* The round that begins when the wrapper is built and after every step:
\* no gather yet, and the sign buffers as they are then.
NewRound(opt) ==
    [gathers |-> 0, signs |-> {},
     plus_sign_buffer |-> opt.plus_sign_buffer,
     minus_sign_buffer |-> opt.minus_sign_buffer]

InitObjects ==
    /\ optimizer = NoOptimizer
    /\ grace = [current_sign |-> 1, calls |-> {}]
    /\ requires_grad \in {f \in [Params -> BOOLEAN] : \E p \in Params : f[p]}
    /\ grad = [p \in Params |-> [set |-> FALSE, val |-> 0]]
    /\ data = [p \in Params |-> 0]
    /\ logged = {}
    /\ factoryArgs = NoArg
    /\ stepCount = 0
    /\ round = NewRound(NoOptimizer)
    /\ totalGathers = 0
    /\ rawSum = [p \in Params |-> 0]
    /\ updater = NoUpdater

Init ==
    /\ InitObjects
    /\ train = NoTrain

\* What the gathers before the first step are claimed to add for parameter
\* p: decompress(compress(.)) of each gradient they consumed.
RawContribution(gradients, p) ==
    IF gradients[p].set THEN Decompress(Compress(gradients[p].val)) ELSE 0

\* The counters after a gather that consumed the given gradients.
GatherBookkeepingOf(gradients) ==
    /\ round' = [round EXCEPT !.gathers = @ + 1,
                               !.signs = @ \cup {grace.current_sign}]
    /\ totalGathers' = totalGathers + 1
    /\ rawSum' = IF stepCount = 0
                 THEN [p \in Params |->
                          rawSum[p] + RawContribution(gradients, p)]
                 ELSE rawSum
    /\ stepCount' = stepCount

GatherBookkeeping == GatherBookkeepingOf(grad)

StepBookkeeping ==
    /\ stepCount' = stepCount + 1
    /\ round' = NewRound(optimizer')
    /\ totalGathers' = totalGathers
    /\ rawSum' = [p \in Params |-> 0]

\* Only the predictive wrapper uses a group's momentum: the other two are
\* built over the layouts that differ in their groups.
Wrap(groups, kwargs) ==
    /\ optimizer.cls = "None"
    /\ (kwargs = Arg(1)) \/ (groups # OneGroup(2))
    /\ optimizer' = grace_optimizer(groups,
                        [has_mode |-> kwargs.has, mode |-> kwargs.val])
    /\ factoryArgs' = kwargs
    /\ round' = NewRound(optimizer')
    /\ UNCHANGED << grace, requires_grad, grad, data, logged, stepCount,
                    totalGathers, rawSum, updater, train >>

Backward(g) ==
    /\ optimizer.cls \in Wrappers
    /\ stepCount < MaxSteps
    /\ totalGathers < MaxGathers
    /\ \A p \in Params : grad[p].val = 0
    /\ Becomes(backward(State, g))
    /\ UNCHANGED << factoryArgs, stepCount, round, totalGathers, rawSum, updater,
                    train >>

Gather(kwargs) ==
    /\ optimizer.cls \in Wrappers
    /\ stepCount < MaxSteps
    /\ totalGathers < MaxGathers
    /\ Becomes(gather(State, [has_turn |-> kwargs.has, turn |-> kwargs.val]))
    /\ GatherBookkeeping
    /\ UNCHANGED << factoryArgs, updater, train >>

Step ==
    /\ optimizer.cls \in Wrappers
    /\ stepCount < MaxSteps
    /\ Becomes(step(State))
    /\ StepBookkeeping
    /\ UNCHANGED << factoryArgs, updater, train >>

SetCurrentSign(sign) ==
    /\ optimizer.cls = "_predTurnOptimizer"
    /\ Becomes(set_current_sign(State, sign))
    /\ UNCHANGED << factoryArgs, stepCount, round, totalGathers, rawSum, updater,
                    train >>

\* Compressor.reset of grace_fl/__init__.py: an empty body.
\* A reset that also puts the wrapper back to its empty state.
reset_ClearsReference(s) == [s EXCEPT !.opt.buffer_empty = TRUE]

reset(s) == s

Reset ==
    /\ optimizer.cls \in Wrappers
    /\ Becomes(reset(State))
    /\ UNCHANGED << factoryArgs, stepCount, round, totalGathers, rawSum, updater,
                    train >>

ModeArgs == {NoArg} \cup {Arg(m) : m \in 0..MaxModeCode}

TurnArgs == {NoArg} \cup {Arg(t) : t \in 0..MaxTurn}

Next ==
    \/ \E groups \in Layouts, kwargs \in ModeArgs : Wrap(groups, kwargs)
    \/ \E g \in GradChoices : Backward(g)
    \/ \E kwargs \in TurnArgs : Gather(kwargs)
    \/ Step
    \/ \E sign \in {1, 0 - 1} : SetCurrentSign(sign)
    \/ Reset

Spec == Init /\ [][Next]_vars

(***************************************************************************)
(* LocalUpdater of gc_optimizer.py.  A user_resource is the set of keys    *)
(* the dictionary holds, its batch size and the number of samples of the   *)
(* client; the sample loader is its number of batches.                     *)
(***************************************************************************)
ResourceKeys == {"batch_size", "device", "images", "labels"}

UpdaterFields == {"batchSize", "device", "sampleLoader", "criterion"}

KeyMessage ==
    "LocalUpdater Initialization Failure! Input should include lr, batchSize!"

SamplesMessage ==
    "LocalUpdater Initialization Failure! Input should include samples!"

\* len(DataLoader(dataset, batch_size)): the last batch may be short.
LoaderLength(samples, batch_size) == (samples + batch_size - 1) \div batch_size

Resources(keySets, maxBatches) ==
    {[keys |-> k, batch_size |-> b, samples |-> n] :
        k \in keySets, b \in 1..maxBatches, n \in 1..maxBatches}

\* The try block of __init__: the attributes it sets before the first
\* failure, and the message its except clause logs.
LocalUpdaterTry(user_resource) ==
    IF "batch_size" \notin user_resource.keys
    THEN [fields |-> {}, message |-> {KeyMessage}]
    ELSE IF "device" \notin user_resource.keys
    THEN [fields |-> {"batchSize"}, message |-> {KeyMessage}]
    ELSE IF {"images", "labels"} \subseteq user_resource.keys
    THEN [fields |-> {"batchSize", "device"}, message |-> {}]
    ELSE [fields |-> {"batchSize", "device"}, message |-> {SamplesMessage}]

\* LocalUpdater.__init__: the handlers only log, so the statements after the
\* try block always run; they raise when they read what is missing.
LocalUpdater(user_resource) ==
    LET try == LocalUpdaterTry(user_resource)
        outcome ==
            IF ~ ({"images", "labels"} \subseteq user_resource.keys)
            THEN "KeyError"
            ELSE IF "batchSize" \notin try.fields
            THEN "AttributeError"
            ELSE "returned"
    IN  [NoUpdater EXCEPT
            !.state = outcome,
            !.keys = user_resource.keys,
            !.message = try.message,
            !.fields = IF outcome = "returned"
                       THEN try.fields \cup {"sampleLoader", "criterion"}
                       ELSE try.fields,
            !.batchSize = IF "batchSize" \in try.fields
                          THEN user_resource.batch_size ELSE 0,
            !.batches = IF outcome = "returned"
                        THEN LoaderLength(user_resource.samples,
                                          user_resource.batch_size)
                        ELSE 0]

\* The call updater.local_step(model, optimizer, **kwargs), at its loop head.
local_step(u, kwargs) ==
    [u EXCEPT !.calling = TRUE, !.kwargs = kwargs,
              !.batches_left = u.batches, !.gathers_of_call = 0]

\* One pass of the loop of local_step, for a batch whose loss has the
\* gradient g: the batch is moved to self.device, then backward and gather.
LocalStepBatch(g) ==
    /\ updater.calling
    /\ updater.batches_left > 0
    /\ IF "device" \in updater.fields
       THEN /\ Becomes(gather(backward(State, g),
                              [has_turn |-> updater.kwargs.has,
                               turn |-> updater.kwargs.val]))
            /\ GatherBookkeepingOf(backward(State, g).grad)
            /\ updater' = [updater EXCEPT !.batches_left = @ - 1,
                                          !.gathers_of_call = @ + 1]
       ELSE /\ updater' = [updater EXCEPT !.state = "AttributeError",
                                          !.calling = FALSE]
            /\ UNCHANGED << optimizer, grace, grad, data, logged, stepCount,
                            round, totalGathers, rawSum >>
    /\ UNCHANGED << requires_grad, factoryArgs >>

(***************************************************************************)
(* Specification UpdaterSpec: a caller that builds a wrapper, constructs   *)
(* updaters from any user_resource and calls local_step on those it gets.  *)
(***************************************************************************)
UpdaterWrap(kwargs) ==
    /\ Wrap(OneGroup(0), kwargs)

NewLocalUpdater(user_resource) ==
    /\ ~ updater.calling
    /\ totalGathers < MaxGathers
    /\ updater' = LocalUpdater(user_resource)
    /\ logged' = logged \cup updater'.message
    /\ UNCHANGED << optimizer, grace, requires_grad, grad, data, factoryArgs,
                    stepCount, round, totalGathers, rawSum, train >>

CallLocalStep(kwargs) ==
    /\ optimizer.cls \in Wrappers
    /\ updater.state = "returned"
    /\ ~ updater.calling
    /\ updater.batches <= MaxGathers - totalGathers
    /\ updater' = local_step(updater, kwargs)
    /\ UNCHANGED << optimizer, grace, requires_grad, grad, data, logged,
                    factoryArgs, stepCount, round, totalGathers, rawSum, train >>

UpdaterBatch(g) ==
    /\ LocalStepBatch(g)
    /\ UNCHANGED train

ReturnLocalStep ==
    /\ updater.calling
    /\ updater.batches_left = 0
    /\ updater' = [updater EXCEPT !.calling = FALSE]
    /\ UNCHANGED << optimizer, grace, requires_grad, grad, data, logged,
                    factoryArgs, stepCount, round, totalGathers, rawSum, train >>

UpdaterNext ==
    \/ \E m \in {0, 1, 3} : UpdaterWrap(Arg(m))
    \/ \E user_resource \in Resources(SUBSET ResourceKeys, MaxGathers) :
          NewLocalUpdater(user_resource)
    \/ \E kwargs \in TurnArgs : CallLocalStep(kwargs)
    \/ \E g \in GradChoices : UpdaterBatch(g)
    \/ ReturnLocalStep

UpdaterSpec == Init /\ [][UpdaterNext]_vars

(***************************************************************************)
(* train of main.py.  The configuration gives the flags parse_config       *)
(* reads, the momentum of the SGD optimizer, the number of epochs, and the *)
(* two numbers train computes from it: iterations_per_epoch and            *)
(* users_to_sample.  The accuracy test of an epoch either exceeds the      *)
(* performance threshold or does not.                                      *)
(***************************************************************************)
parse_config(config) ==
    IF config.predictive /\ config.take_turns THEN 0
    ELSE IF config.predictive THEN 1
    ELSE IF config.take_turns THEN 2
    ELSE 3

Configs ==
    {c \in [predictive : BOOLEAN, take_turns : BOOLEAN,
            random_sampling : BOOLEAN, momentum : {0, 2},
            epoch : 1..MaxSteps, iterations_per_epoch : 1..MaxSteps,
            users_to_sample : 0..MaxGathers] :
        /\ c.epoch * c.iterations_per_epoch <= MaxSteps
        /\ c.momentum = 0 \/ parse_config(c) = 1}

TrainStart(config) ==
    [pc |-> "start", config |-> config, error |-> "None",
     epoch |-> 0, iteration |-> 0, global_turn |-> 0 - 1,
     users_left |-> 0, clients_done |-> 0,
     break_flag |-> FALSE, comm_rounds |-> 0,
     testing_accuracy |-> 0, compress_ratio |-> 0, resets |-> 0,
     record_comm_rounds |-> [set |-> FALSE, val |-> 0]]

TrainInit ==
    /\ InitObjects
    /\ train \in {TrainStart(config) : config \in Configs}

\* Lines 93-125: the wrapper is built over the one parameter group of
\* optim.SGD, with the mode parse_config returns.
TrainSetup ==
    /\ train.pc = "start"
    /\ optimizer' = grace_optimizer(OneGroup(train.config.momentum),
                        [has_mode |-> TRUE, mode |-> parse_config(train.config)])
    /\ factoryArgs' = Arg(parse_config(train.config))
    /\ round' = NewRound(optimizer')
    /\ train' = IF optimizer'.cls \in Wrappers
                THEN [train EXCEPT !.pc = "epoch"]
                ELSE [train EXCEPT !.pc = "raised", !.error = optimizer'.cls]
    /\ UNCHANGED << grace, requires_grad, grad, data, logged, stepCount,
                    totalGathers, rawSum, updater >>

\* Line 127: the head of the loop over the epochs.
\* A loop over the epochs that starts every epoch at turn 0 again.
TrainEpoch_ResetsTurn ==
    /\ train.pc = "epoch"
    /\ train' = IF train.epoch < train.config.epoch
                THEN [train EXCEPT !.pc = "iteration", !.iteration = 0,
                                   !.global_turn = 0 - 1]
                ELSE [train EXCEPT !.pc = "returned"]
    /\ UNCHANGED << optimizer, grace, requires_grad, grad, data, logged,
                    factoryArgs, stepCount, round, totalGathers, rawSum,
                    updater >>

TrainEpoch ==
    /\ train.pc = "epoch"
    /\ train' = IF train.epoch < train.config.epoch
                THEN [train EXCEPT !.pc = "iteration", !.iteration = 0]
                ELSE [train EXCEPT !.pc = "returned"]
    /\ UNCHANGED << optimizer, grace, requires_grad, grad, data, logged,
                    factoryArgs, stepCount, round, totalGathers, rawSum,
                    updater >>

\* Lines 130-138: the head of the loop over the iterations, up to the head of
\* the loop over the clients; userIDs_candidates is bound only under
\* random_sampling.
TrainIteration ==
    /\ train.pc = "iteration"
    /\ train' =
         IF train.iteration >= train.config.iterations_per_epoch
         THEN [train EXCEPT !.pc = "test"]
         ELSE IF train.config.random_sampling
         THEN [train EXCEPT !.pc = "user",
                            !.global_turn = @ + 1,
                            !.users_left = train.config.users_to_sample,
                            !.clients_done = 0]
         ELSE [train EXCEPT !.pc = "raised", !.error = "UnboundLocalError",
                            !.global_turn = @ + 1]
    /\ UNCHANGED << optimizer, grace, requires_grad, grad, data, logged,
                    factoryArgs, stepCount, round, totalGathers, rawSum,
                    updater >>

\* Lines 138-145: the next client gets its resource, an updater is built
\* and local_step is called with the turn of the round.
TrainUser(user_resource) ==
    /\ train.pc = "user"
    /\ train.users_left > 0
    /\ LoaderLength(user_resource.samples, user_resource.batch_size)
          <= MaxGathers - round.gathers - (train.users_left - 1)
    /\ updater' = local_step(LocalUpdater(user_resource),
                             Arg(train.global_turn))
    /\ logged' = logged \cup LocalUpdater(user_resource).message
    /\ train' = [train EXCEPT !.pc = "local_step"]
    /\ UNCHANGED << optimizer, grace, requires_grad, grad, data, factoryArgs,
                    stepCount, round, totalGathers, rawSum >>

TrainBatch(g) ==
    /\ train.pc = "local_step"
    /\ LocalStepBatch(g)
    /\ UNCHANGED train

\* local_step returns when its loader is exhausted: back to line 138.
TrainLocalStepReturn_StepsPerClient ==
    /\ train.pc = "local_step"
    /\ updater.batches_left = 0
    /\ updater' = [updater EXCEPT !.calling = FALSE]
    /\ train' = [train EXCEPT !.pc = "user", !.users_left = @ - 1,
                              !.clients_done = @ + 1]
    /\ Becomes(step(State))
    /\ StepBookkeeping
    /\ UNCHANGED << requires_grad, factoryArgs >>

TrainLocalStepReturn ==
    /\ train.pc = "local_step"
    /\ updater.batches_left = 0
    /\ updater' = [updater EXCEPT !.calling = FALSE]
    /\ train' = [train EXCEPT !.pc = "user", !.users_left = @ - 1,
                              !.clients_done = @ + 1]
    /\ UNCHANGED << optimizer, grace, requires_grad, grad, data, logged,
                    factoryArgs, stepCount, round, totalGathers, rawSum >>

\* Line 147: the loop over the clients is exhausted, the server steps.
TrainStep ==
    /\ train.pc = "user"
    /\ train.users_left = 0
    /\ Becomes(step(State))
    /\ StepBookkeeping
    /\ train' = [train EXCEPT !.pc = "iteration", !.iteration = @ + 1]
    /\ UNCHANGED << factoryArgs, updater >>

\* Lines 149-169: the accuracy test that ends an epoch.  The break of line
\* 160 leaves the loop over the epochs, since the with block is no loop.
TrainTest(above) ==
    /\ train.pc = "test"
    /\ train' =
         IF above
         THEN [train EXCEPT !.pc = "returned",
                            !.testing_accuracy = @ + 1,
                            !.comm_rounds = @ + 1,
                            !.break_flag = TRUE]
         ELSE [train EXCEPT !.pc = "epoch",
                            !.testing_accuracy = @ + 1,
                            !.comm_rounds = @ + 1,
                            !.compress_ratio = @ + 1,
                            !.resets = @ + 1,
                            !.epoch = @ + 1]
    /\ Becomes(IF above THEN State ELSE reset(State))
    /\ UNCHANGED << factoryArgs, stepCount, round, totalGathers, rawSum,
                    updater >>

TrainNext ==
    \/ TrainSetup
    \/ TrainEpoch
    \/ TrainIteration
    \/ \E user_resource \in Resources({ResourceKeys}, MaxGathers) :
          TrainUser(user_resource)
    \/ \E g \in GradChoices : TrainBatch(g)
    \/ TrainLocalStepReturn
    \/ TrainStep
    \/ \E above \in BOOLEAN : TrainTest(above)

TrainSpec == TrainInit /\ [][TrainNext]_vars

(***************************************************************************)
(* Properties of the wrapper under any caller (specification Spec).        *)
(***************************************************************************)
Built == optimizer.cls \in Wrappers

BufferIndices == 1..NumParameters(optimizer.param_groups)

\* The place of parameter p's own buffers in the flat lists the constructors
\* fill: its position in the order "for group ...: for param ...".
FlatIndex(groups, p) ==
    CHOOSE k \in 1..Len(Slots(groups)) : Slots(groups)[k].param = p

AllZero(buffers) == \A i \in DOMAIN buffers : buffers[i] = 0

GatherStep == round'.gathers = round.gathers + 1

StepStep == stepCount' = stepCount + 1

\* C1: in every mode, and whatever gather and step calls were made, every
\* accumulation buffer is all-zero from construction and from the return of
\* every step() until the first gather that follows.
C1_BufferReset ==
    (Built /\ round.gathers = 0) => AllZero(optimizer.gatheredGradients)

\* C1: a step() has just returned after a round with gathers, in a wrapper
\* that already held a reference.
C1_Witness ==
    /\ Built
    /\ stepCount = 2
    /\ totalGathers = 2
    /\ round.gathers = 0
    /\ AllZero(optimizer.gatheredGradients)

\* C5: the wrapper as it stands, put back to the start of the round: empty
\* accumulation buffers and the sign buffers the last step left.
AtRoundStart ==
    [State EXCEPT
        !.opt.gatheredGradients = Zeros(NumParameters(optimizer.param_groups)),
        !.opt.plus_sign_buffer = round.plus_sign_buffer,
        !.opt.minus_sign_buffer = round.minus_sign_buffer]

AddsWhatItAddsFirst ==
    LET first == gather(AtRoundStart, [has_turn |-> FALSE, turn |-> 0]).opt
    IN  \A i \in BufferIndices :
          /\ optimizer'.gatheredGradients[i] - optimizer.gatheredGradients[i]
                = first.gatheredGradients[i]
          /\ optimizer'.plus_sign_buffer[i] - optimizer.plus_sign_buffer[i]
                = first.plus_sign_buffer[i] - round.plus_sign_buffer[i]
          /\ optimizer'.minus_sign_buffer[i] - optimizer.minus_sign_buffer[i]
                = first.minus_sign_buffer[i] - round.minus_sign_buffer[i]
          /\ optimizer'.buffer[i] = optimizer.buffer[i]

\* C5: aggregation is order-independent.  In a round gathered under one
\* current_sign, every gather adds to the accumulation buffers and to the
\* sign buffers exactly what it would add as the first gather of the round,
\* whatever was gathered before it: the buffers after the last gather are
\* the start of the round plus one term per client gradient, a sum that is
\* the same for every processing order.
C5_OrderIndependent ==
    [][(GatherStep /\ Cardinality(round'.signs) = 1)
          => AddsWhatItAddsFirst]_vars

\* C5: two gathers of one round in a turn wrapper that holds a reference,
\* with drift recorded in a sign buffer.
C5_Witness ==
    /\ optimizer.cls = "_predTurnOptimizer"
    /\ ~optimizer.buffer_empty
    /\ round.gathers = 2
    /\ Cardinality(round.signs) = 1
    /\ optimizer.minus_sign_buffer # round.minus_sign_buffer

\* The same, said directly for two clients (a cross-check of C5, costly to
\* evaluate): from a state with all gradients consumed, gathering gA then gB
\* leaves the buffers that gathering gB then gA leaves.
TwoGathers(s, gA, gB) ==
    LET kw == [has_turn |-> FALSE, turn |-> 0]
    IN  gather(backward(gather(backward(s, gA), kw), gB), kw).opt

PairsCommute ==
    (Built /\ \A p \in Params : grad[p].val = 0)
    => \A gA \in GradChoices, gB \in GradChoices :
         LET ab == TwoGathers(State, gA, gB)
             ba == TwoGathers(State, gB, gA)
         IN  /\ ab.gatheredGradients = ba.gatheredGradients
             /\ ab.plus_sign_buffer = ba.plus_sign_buffer
             /\ ab.minus_sign_buffer = ba.minus_sign_buffer
             /\ ab.buffer = ba.buffer

\* C6: before the first step() gather compresses the raw gradient, never a
\* residual, and the accumulation buffer of every parameter holds
\* decompress(compress(g)) summed over the gradients g gathered for it.
C6_RoundZero ==
    (Built /\ stepCount = 0)
    => /\ grace.calls \subseteq {"compress", "decompress"}
       /\ \A p \in Params :
            optimizer.gatheredGradients[FlatIndex(optimizer.param_groups, p)]
                = rawSum[p]

\* What C6 says holds of every wrapper built over a single parameter group.
RoundZeroOneGroup ==
    (Built /\ stepCount = 0 /\ Len(optimizer.param_groups) = 1)
    => /\ grace.calls \subseteq {"compress", "decompress"}
       /\ \A p \in Params :
            optimizer.gatheredGradients[FlatIndex(optimizer.param_groups, p)]
                = rawSum[p]

ReferencesUnchanged ==
    /\ optimizer'.buffer = optimizer.buffer
    /\ optimizer'.plus_sign_buffer = optimizer.plus_sign_buffer
    /\ optimizer'.minus_sign_buffer = optimizer.minus_sign_buffer

ReferencesZeroWhenBuilt ==
    (Built /\ stepCount = 0 /\ totalGathers = 0)
    => /\ AllZero(optimizer.buffer)
       /\ AllZero(optimizer.plus_sign_buffer)
       /\ AllZero(optimizer.minus_sign_buffer)

\* C7 as claimed: the reference buffers are all-zero at construction and
\* only step() updates them; a gather leaves every one of them unchanged.
C7_OnlyStepUpdates ==
    /\ []ReferencesZeroWhenBuilt
    /\ [][(Built /\ ~StepStep) => ReferencesUnchanged]_vars

\* C7 as amended: the reference buffers are all-zero at construction; a
\* gather leaves the reference buffer of the predictive wrapper and the sign
\* buffer that current_sign selects unchanged and only adds counts to the
\* opposite sign buffer; nothing but gather and step changes any of them.
C7_GatherKeepsItsReference ==
    /\ []ReferencesZeroWhenBuilt
    /\ [][(Built /\ ~StepStep) =>
            IF GatherStep
            THEN /\ optimizer'.buffer = optimizer.buffer
                 /\ \A i \in BufferIndices :
                      IF grace.current_sign = 1
                      THEN /\ optimizer'.plus_sign_buffer[i]
                                = optimizer.plus_sign_buffer[i]
                           /\ optimizer'.minus_sign_buffer[i]
                                >= optimizer.minus_sign_buffer[i]
                      ELSE /\ optimizer'.minus_sign_buffer[i]
                                = optimizer.minus_sign_buffer[i]
                           /\ optimizer'.plus_sign_buffer[i]
                                >= optimizer.plus_sign_buffer[i]
            ELSE ReferencesUnchanged]_vars

\* C7: a gather under current_sign = -1 has added to the plus buffer.
C7_Witness ==
    /\ optimizer.cls = "_predTurnOptimizer"
    /\ round.gathers = 1
    /\ round.signs = {0 - 1}
    /\ optimizer.plus_sign_buffer # round.plus_sign_buffer
    /\ optimizer.minus_sign_buffer = round.minus_sign_buffer

\* C8: the factory builds the turn wrapper for mode 0, the predictive wrapper
\* for mode 1 and the plain wrapper for mode 3; for any other mode code it
\* fails with an error and builds no wrapper of any mode.
C8_Factory ==
    (optimizer.cls # "None" /\ factoryArgs.has)
    => /\ factoryArgs.val = 0 => optimizer.cls = "_predTurnOptimizer"
       /\ factoryArgs.val = 1 => optimizer.cls = "_predOptimizer"
       /\ factoryArgs.val = 3 => optimizer.cls = "_graceOptimizer"
       /\ factoryArgs.val \notin {0, 1, 3}
            => /\ optimizer.cls = "UnboundLocalError"
               /\ optimizer.gatheredGradients = << >>

\* C8: the factory was called with the reserved mode 2.
C8_Witness ==
    /\ factoryArgs = Arg(2)
    /\ optimizer.cls = "UnboundLocalError"

NoTurnMessage == "Turn trick cannot be applied"

\* What one gather of the turn wrapper decodes for a slot, and the drift it
\* counts, read off the state before the call.
TurnDecoded(slot) ==
    LET g == grad[slot.param].val
        ref == IF grace.current_sign = 1
               THEN optimizer.plus_sign_buffer[slot.i]
               ELSE optimizer.minus_sign_buffer[slot.i]
    IN  IF optimizer.buffer_empty THEN Decompress(Compress(g))
        ELSE DecompressWithReference(CompressWithReference(g, ref), ref)

TurnDrift(slot) ==
    LET g == grad[slot.param].val
    IN  IF grace.current_sign = 1
        THEN (IF g < 0 - EPSILON THEN 1 ELSE 0)
        ELSE (IF g > EPSILON THEN 1 ELSE 0)

RECURSIVE TurnDecodedSum(_, _)
TurnDecodedSum(slots, i) ==
    IF slots = << >> THEN 0
    ELSE (IF Head(slots).i = i /\ grad[Head(slots).param].set
          THEN TurnDecoded(Head(slots)) ELSE 0)
         + TurnDecodedSum(Tail(slots), i)

RECURSIVE TurnDriftSum(_, _)
TurnDriftSum(slots, i) ==
    IF slots = << >> THEN 0
    ELSE (IF Head(slots).i = i /\ grad[Head(slots).param].set
          THEN TurnDrift(Head(slots)) ELSE 0)
         + TurnDriftSum(Tail(slots), i)

\* C10: in turn mode a gather without a turn logs the error and goes on:
\* turn and the sign state stay as they were, every available gradient is
\* accumulated, the drift buffer is updated and the gradients are cleared.
C10_NoTurnContinues ==
    [][(optimizer.cls = "_predTurnOptimizer" /\ Gather(NoArg)) =>
         /\ NoTurnMessage \in logged'
         /\ optimizer'.turn = optimizer.turn
         /\ optimizer'.self_current_sign = optimizer.self_current_sign
         /\ grace'.current_sign = grace.current_sign
         /\ \A p \in Params : grad'[p] = [set |-> grad[p].set, val |-> 0]
         /\ \A i \in BufferIndices :
              LET slots == Slots(optimizer.param_groups)
                  opposite == optimizer.minus_sign_buffer[i]
                                + optimizer.plus_sign_buffer[i]
                  opposite2 == optimizer'.minus_sign_buffer[i]
                                + optimizer'.plus_sign_buffer[i]
              IN  /\ optimizer'.gatheredGradients[i]
                        = optimizer.gatheredGradients[i]
                          + TurnDecodedSum(slots, i)
                  /\ opposite2 = opposite + TurnDriftSum(slots, i)]_vars

\* C10: a turn wrapper that was given turn 1 by one gather and no turn by
\* another, with gradients accumulated in the round.
C10_Witness ==
    /\ optimizer.cls = "_predTurnOptimizer"
    /\ NoTurnMessage \in logged
    /\ optimizer.turn = [set |-> TRUE, val |-> 1]
    /\ optimizer.self_current_sign = 0 - 1
    /\ round.gathers = 2
    /\ ~AllZero(optimizer.gatheredGradients)


(***************************************************************************)
(* Properties of the training loop (specification TrainSpec).              *)
(***************************************************************************)
\* C2: in the training loop, the step of round r is the (r+1)-th step and
\* comes when every sampled client of the round has returned from
\* local_step; every gather of round r comes after exactly r steps; and a
\* round begins only when every round before it was stepped.
C2_StepOncePerRound ==
    [][ /\ GatherStep => stepCount = train.global_turn
        /\ StepStep =>
              /\ stepCount = train.global_turn
              /\ train.clients_done = train.config.users_to_sample
              /\ ~ updater.calling
        /\ train'.global_turn # train.global_turn =>
              /\ train'.global_turn = train.global_turn + 1
              /\ stepCount = train'.global_turn
              /\ round.gathers = 0 ]_vars

\* C2: train has returned after two rounds, each with gathers and its step.
C2_Witness ==
    /\ train.pc = "returned"
    /\ train.global_turn = 1
    /\ stepCount = 2
    /\ totalGathers >= 3
    /\ round.gathers = 0

\* C3: a call of local_step makes exactly one gather call, so that the
\* gathers of a round are as many as the clients that returned from it.
C3_OneGatherPerClient ==
    /\ updater.gathers_of_call <= 1
    /\ (train.pc = "local_step" /\ updater.batches_left = 0)
          => updater.gathers_of_call = 1
    /\ train.pc = "user" => round.gathers = train.clients_done

ParitySign(turn) == IF turn % 2 = 0 THEN 1 ELSE 0 - 1

\* C4: in turn mode, once a gather of the round with turn t has run, the
\* sign that gather and step use is +1 for even t and -1 for odd t.
C4_TurnParity ==
    (optimizer.cls = "_predTurnOptimizer" /\ round.gathers > 0)
        => /\ optimizer.turn.val = train.global_turn
           /\ current_sign(State) = ParitySign(train.global_turn)

(***************************************************************************)
(* Properties of LocalUpdater under any caller (specification UpdaterSpec).*)
(***************************************************************************)
\* C9: a construction from a user_resource that lacks a required key logs
\* an error and returns no object, and every object returned has all four
\* of its attributes.
C9_NoPartialUpdater ==
    /\ (updater.state # "None" /\ updater.keys # ResourceKeys)
          => (updater.state # "returned" /\ updater.message # {})
    /\ updater.state = "returned" => updater.fields = UpdaterFields

\* C11: whenever an epoch has ended (train is back at the head of the loop
\* over the epochs, or has returned), the record holds as many compression
\* ratios as testing accuracies and reset() was called once per epoch run.
C11_EpochRecords ==
    train.pc \in {"epoch", "returned"}
        => /\ train.compress_ratio = train.testing_accuracy
           /\ train.resets = train.testing_accuracy

(***************************************************************************)
(* Properties of the buffers and of the update of one step (Spec).         *)
(***************************************************************************)
GroupOf(groups, p) ==
    CHOOSE k \in 1..Len(groups) :
        \E j \in 1..Len(groups[k].params) : groups[k].params[j] = p

lr(p) == optimizer.param_groups[GroupOf(optimizer.param_groups, p)].lr

momentum(p) == optimizer.param_groups[GroupOf(optimizer.param_groups, p)].momentum

\* The accumulation buffer created for parameter p.
OwnBuffer(opt, p) == opt.gatheredGradients[FlatIndex(opt.param_groups, p)]

\* C12: every parameter has its own buffers.  A gather adds one decoded
\* gradient (+1 or -1) to the accumulation buffer created for each parameter
\* that has a gradient and leaves the buffer of a parameter without one as
\* it is; a step of the plain wrapper updates each parameter from the buffer
\* created for it.
C12_OwnBuffers ==
    [][ /\ (Built /\ GatherStep) =>
              \A p \in Params :
                 LET added == OwnBuffer(optimizer', p) - OwnBuffer(optimizer, p)
                 IN  IF grad[p].set THEN added \in {0 - 1, 1} ELSE added = 0
        /\ (optimizer.cls = "_graceOptimizer" /\ StepStep) =>
              \A p \in Params :
                 data'[p] = data[p]
                            - lr(p) * TransAggregation(OwnBuffer(optimizer, p))
      ]_vars

\* What C12 says holds of every wrapper built over a single parameter group.
OwnBuffersOneGroup ==
    [][ Len(optimizer.param_groups) = 1 =>
        /\ (Built /\ GatherStep) =>
              \A p \in Params :
                 LET added == OwnBuffer(optimizer', p) - OwnBuffer(optimizer, p)
                 IN  IF grad[p].set THEN added \in {0 - 1, 1} ELSE added = 0
        /\ (optimizer.cls = "_graceOptimizer" /\ StepStep) =>
              \A p \in Params :
                 data'[p] = data[p]
                            - lr(p) * TransAggregation(OwnBuffer(optimizer, p))
      ]_vars

\* The momentum buffer of parameter p after a step that aggregated d_param.
SmoothedBy(p, d_param) ==
    LET old == optimizer.momentum_buffer[p]
    IN  IF old.set THEN momentum(p) * old.val + d_param ELSE d_param

\* C13: a step of the predictive wrapper over a group with momentum sets the
\* momentum buffer to momentum * buf + d_param (to d_param at the first
\* step) and changes the parameter by -lr * buf; over a group with momentum
\* 0 it changes the parameter by -lr * d_param.
C13_MomentumUpdate ==
    [][(optimizer.cls = "_predOptimizer" /\ StepStep) =>
         \A p \in Params :
            LET d_param == TransAggregation(OwnBuffer(optimizer, p))
                buf == SmoothedBy(p, d_param)
            IN  IF momentum(p) = 0
                THEN data'[p] = data[p] - lr(p) * d_param
                ELSE /\ optimizer'.momentum_buffer[p]
                            = [set |-> TRUE, val |-> buf]
                     /\ data'[p] = data[p] - lr(p) * buf]_vars

\* The part of C13 the code keeps, over a single parameter group: the
\* momentum buffer is updated as claimed, and without momentum the parameter
\* changes by -lr * d_param.
MomentumBufferOneGroup ==
    [][(optimizer.cls = "_predOptimizer" /\ StepStep
            /\ Len(optimizer.param_groups) = 1) =>
         \A p \in Params :
            LET d_param == TransAggregation(OwnBuffer(optimizer, p))
            IN  IF momentum(p) = 0
                THEN data'[p] = data[p] - lr(p) * d_param
                ELSE optimizer'.momentum_buffer[p]
                        = [set |-> TRUE, val |-> SmoothedBy(p, d_param)]]_vars

\* The sign a step of the wrapper multiplies the update with.
StepSign == IF optimizer.cls = "_predTurnOptimizer" THEN current_sign(State) ELSE 1

\* The update of the step is not compressed once more: the plain and the
\* turn wrapper, and groups without momentum in the predictive wrapper.
PlainUpdate(p) == optimizer.cls # "_predOptimizer" \/ momentum(p) = 0

\* C14: one step changes each parameter by -lr * d_param (times current_sign
\* in turn mode), d_param being trans_aggregation of the parameter's
\* accumulation buffer as the gathers of the round left it: in the first
\* round the sum of decompress(compress(g)) over the gradients g gathered for
\* that parameter, and zero after a round without gathers.
C14_StepUpdate ==
    [][(Built /\ StepStep) =>
         \A p \in Params :
            PlainUpdate(p) =>
               /\ data'[p] = data[p] - lr(p) * StepSign
                                 * TransAggregation(OwnBuffer(optimizer, p))
               /\ stepCount = 0 => OwnBuffer(optimizer, p) = rawSum[p]]_vars

\* What C14 says holds of every wrapper built over a single parameter group.
StepUpdateOneGroup ==
    [][(Built /\ StepStep /\ Len(optimizer.param_groups) = 1) =>
         \A p \in Params :
            PlainUpdate(p) =>
               /\ data'[p] = data[p] - lr(p) * StepSign
                                 * TransAggregation(OwnBuffer(optimizer, p))
               /\ stepCount = 0 => OwnBuffer(optimizer, p) = rawSum[p]]_vars

\* The reference buffer created for parameter p in the predictive wrapper.
OwnReference(opt, p) == opt.buffer[FlatIndex(opt.param_groups, p)]

\* C15: in predictive mode, after every step the reference buffer of each
\* parameter is the d_param the step applied to it
\* (param_after = param_before - lr * reference_after), and a gather of the
\* next round decodes the parameter's gradient against that reference.
C15_ReferenceIsUpdate ==
    [][optimizer.cls = "_predOptimizer" =>
         /\ StepStep =>
              \A p \in Params :
                 data'[p] = data[p] - lr(p) * OwnReference(optimizer', p)
         /\ (GatherStep /\ ~optimizer.buffer_empty) =>
              \A p \in Params :
                 grad[p].set =>
                    LET ref == OwnReference(optimizer, p)
                    IN  OwnBuffer(optimizer', p) - OwnBuffer(optimizer, p)
                          = DecompressWithReference(
                               CompressWithReference(grad[p].val, ref), ref)
      ]_vars

\* What C15 says holds of every wrapper built over a single parameter group.
ReferenceIsUpdateOneGroup ==
    [][(optimizer.cls = "_predOptimizer"
            /\ Len(optimizer.param_groups) = 1) =>
         /\ StepStep =>
              \A p \in Params :
                 data'[p] = data[p] - lr(p) * OwnReference(optimizer', p)
         /\ (GatherStep /\ ~optimizer.buffer_empty) =>
              \A p \in Params :
                 grad[p].set =>
                    LET ref == OwnReference(optimizer, p)
                    IN  OwnBuffer(optimizer', p) - OwnBuffer(optimizer, p)
                          = DecompressWithReference(
                               CompressWithReference(grad[p].val, ref), ref)
      ]_vars

\* C16: in turn mode a step zeroes the sign buffer that matches current_sign
\* and replaces the opposite one by its accumulated drift passed through
\* trans_aggregation with the opposite sign: with current_sign = +1,
\* plus := 0 and minus := -trans_aggregation(minus, -1); with -1, minus := 0
\* and plus := trans_aggregation(plus, +1).
C16_TurnStepBuffers ==
    [][(optimizer.cls = "_predTurnOptimizer" /\ StepStep) =>
         \A p \in Params :
            LET k == FlatIndex(optimizer.param_groups, p)
                sign == current_sign(State)
            IN  IF sign = 1
                THEN /\ optimizer'.plus_sign_buffer[k] = 0
                     /\ optimizer'.minus_sign_buffer[k] =
                          0 - TransAggregationSigned(
                                  optimizer.minus_sign_buffer[k], 0 - sign)
                ELSE /\ optimizer'.minus_sign_buffer[k] = 0
                     /\ optimizer'.plus_sign_buffer[k] =
                          TransAggregationSigned(
                              optimizer.plus_sign_buffer[k], 0 - sign)]_vars

\* What C16 says holds of every wrapper built over a single parameter group.
TurnStepBuffersOneGroup ==
    [][(optimizer.cls = "_predTurnOptimizer" /\ StepStep
            /\ Len(optimizer.param_groups) = 1) =>
         \A p \in Params :
            LET k == FlatIndex(optimizer.param_groups, p)
                sign == current_sign(State)
            IN  IF sign = 1
                THEN /\ optimizer'.plus_sign_buffer[k] = 0
                     /\ optimizer'.minus_sign_buffer[k] =
                          0 - TransAggregationSigned(
                                  optimizer.minus_sign_buffer[k], 0 - sign)
                ELSE /\ optimizer'.minus_sign_buffer[k] = 0
                     /\ optimizer'.plus_sign_buffer[k] =
                          TransAggregationSigned(
                              optimizer.plus_sign_buffer[k], 0 - sign)]_vars

\* 1 where the gradient of parameter p, as it is before the gather clears
\* it, crosses the threshold in the direction current_sign does not use.
Crossed(p) ==
    IF ~grad[p].set THEN 0
    ELSE IF current_sign(State) = 1
    THEN (IF grad[p].val < 0 - EPSILON THEN 1 ELSE 0)
    ELSE (IF grad[p].val > EPSILON THEN 1 ELSE 0)

\* C17: in turn mode each gather adds to the opposite-sign buffer of every
\* parameter 1 if the parameter's gradient crosses the threshold in the
\* unused direction (below -EPSILON into the minus buffer under
\* current_sign = +1, above EPSILON into the plus buffer under -1), and
\* leaves the buffer that matches current_sign unchanged.
C17_DriftCount ==
    [][(optimizer.cls = "_predTurnOptimizer" /\ GatherStep) =>
         \A p \in Params :
            LET k == FlatIndex(optimizer.param_groups, p)
            IN  IF current_sign(State) = 1
                THEN /\ optimizer'.minus_sign_buffer[k]
                           = optimizer.minus_sign_buffer[k] + Crossed(p)
                     /\ optimizer'.plus_sign_buffer[k]
                           = optimizer.plus_sign_buffer[k]
                ELSE /\ optimizer'.plus_sign_buffer[k]
                           = optimizer.plus_sign_buffer[k] + Crossed(p)
                     /\ optimizer'.minus_sign_buffer[k]
                           = optimizer.minus_sign_buffer[k]]_vars

\* What C17 says holds of every wrapper built over a single parameter group.
DriftCountOneGroup ==
    [][(optimizer.cls = "_predTurnOptimizer" /\ GatherStep
            /\ Len(optimizer.param_groups) = 1) =>
         \A p \in Params :
            LET k == FlatIndex(optimizer.param_groups, p)
            IN  IF current_sign(State) = 1
                THEN /\ optimizer'.minus_sign_buffer[k]
                           = optimizer.minus_sign_buffer[k] + Crossed(p)
                     /\ optimizer'.plus_sign_buffer[k]
                           = optimizer.plus_sign_buffer[k]
                ELSE /\ optimizer'.plus_sign_buffer[k]
                           = optimizer.plus_sign_buffer[k] + Crossed(p)
                     /\ optimizer'.minus_sign_buffer[k]
                           = optimizer.minus_sign_buffer[k]]_vars

PredictiveWrappers == {"_predOptimizer", "_predTurnOptimizer"}

RawCalls == {"compress", "decompress"}

ReferenceCalls == {"compress_with_reference", "decompress_with_reference"}

RECURSIVE SumOf(_)
SumOf(buffers) ==
    IF buffers = << >> THEN 0 ELSE Head(buffers) + SumOf(Tail(buffers))

\* The buffers created for parameter p: accumulation, reference, plus, minus.
OwnBuffers(opt, p) ==
    LET k == FlatIndex(opt.param_groups, p)
    IN  << opt.gatheredGradients[k], opt.buffer[k],
           opt.plus_sign_buffer[k], opt.minus_sign_buffer[k] >>

\* C19: gather consumes the gradients.  After a gather the gradient of every
\* parameter that had one is zero and a parameter without one still has
\* none; a parameter without a gradient is skipped, its own buffers being
\* left as they are; and a gather that finds only consumed gradients, before
\* any reference exists, adds decompress(compress(0)) per parameter and
\* nothing else.
C19_GatherConsumes ==
    [][(Built /\ GatherStep) =>
         /\ \A p \in Params : grad'[p] = [set |-> grad[p].set, val |-> 0]
         /\ \A p \in Params :
               ~grad[p].set => OwnBuffers(optimizer', p) = OwnBuffers(optimizer, p)
         /\ ((optimizer.cls = "_graceOptimizer" \/ optimizer.buffer_empty)
                /\ \A p \in Params : grad[p].val = 0)
               => SumOf(optimizer'.gatheredGradients)
                    = SumOf(optimizer.gatheredGradients)
                      + Cardinality({p \in Params : grad[p].set})
                          * Decompress(Compress(0))]_vars

\* What C19 says holds of every wrapper built over a single parameter group.
GatherConsumesOneGroup ==
    [][(Built /\ GatherStep /\ Len(optimizer.param_groups) = 1) =>
         /\ \A p \in Params : grad'[p] = [set |-> grad[p].set, val |-> 0]
         /\ \A p \in Params :
               ~grad[p].set => OwnBuffers(optimizer', p) = OwnBuffers(optimizer, p)
         /\ ((optimizer.cls = "_graceOptimizer" \/ optimizer.buffer_empty)
                /\ \A p \in Params : grad[p].val = 0)
               => SumOf(optimizer'.gatheredGradients)
                    = SumOf(optimizer.gatheredGradients)
                      + Cardinality({p \in Params : grad[p].set})
                          * Decompress(Compress(0))]_vars

\* C20: every gather of the training loop is called with the number of
\* rounds completed before it: 0 in the first round, one more in each round,
\* epoch boundaries included, and the same for all gathers of a round; in
\* turn mode the wrapper reads that turn and its parity, and the sign the
\* wrapper uses is the same in all gathers of the round.
C20_TurnCountsRounds ==
    [][GatherStep =>
         /\ updater.kwargs = Arg(stepCount)
         /\ train.global_turn = stepCount
         /\ Cardinality(round'.signs) = 1
         /\ optimizer.cls = "_predTurnOptimizer" =>
               /\ optimizer'.turn = [set |-> TRUE, val |-> stepCount]
               /\ optimizer'.self_current_sign = ParitySign(stepCount)]_vars

\* C20: in the second epoch of a run in turn mode, the second gather of the
\* round was called with turn 1.
C20_Witness ==
    /\ optimizer.cls = "_predTurnOptimizer"
    /\ train.epoch = 1
    /\ stepCount = 1
    /\ round.gathers = 2
    /\ optimizer.turn = [set |-> TRUE, val |-> 1]
    /\ updater.kwargs = Arg(1)

\* C21: when train has returned, either an accuracy test exceeded the
\* threshold, and then that test was the last one and record['comm_rounds']
\* holds the number of epochs evaluated, or none did, and then all
\* config.epoch epochs were run and evaluated.
C21_StopsAtThreshold ==
    train.pc = "returned" =>
        IF train.break_flag
        THEN /\ train.testing_accuracy = train.epoch + 1
             /\ train.record_comm_rounds
                   = [set |-> TRUE, val |-> train.testing_accuracy]
        ELSE /\ train.epoch = train.config.epoch
             /\ train.testing_accuracy = train.config.epoch

\* The part of C21 the code keeps: training stops with the epoch whose
\* accuracy exceeds the threshold, and runs all epochs when none does.
StopsOrRunsAll ==
    train.pc = "returned" =>
        IF train.break_flag
        THEN /\ train.testing_accuracy = train.epoch + 1
             /\ train.comm_rounds = train.testing_accuracy
        ELSE /\ train.epoch = train.config.epoch
             /\ train.testing_accuracy = train.config.epoch

=============================================================================
